---- MODULE Spec2Model ----
(***************************************************************************)
(* Model of the tournament-and-evolution engine of src/src/gametheory.rs:  *)
(* the genome codec, the canonical strategies, Tournament::from / run /    *)
(* select_ten_fittest, and the genetic operators.                          *)
(* With it, the Tournament of src/src/main.rs: initialise_from and         *)
(* iterate_round.                                                          *)
(***************************************************************************)
EXTENDS Integers, Sequences, FiniteSets, TLC

VARIABLES
    tour,        \* the Tournament: players, opponents, scores, max_iter
    rng,         \* rand::thread_rng(): [seed, draws]
    pc,          \* where the caller of the tournament is
    run_iter,    \* run(): index of the iteration under way
    run_j,       \* run(): the opponent loop variable j
    run_i,       \* run(): the canonical-player loop variable i
    fatal,       \* <<function, panic message>> once the process panicked
    leaderboard, \* what select_ten_fittest returned
    played,      \* history: calls of execute_round_and_update_scores per pair
    begun,       \* history: iterations of run() begun so far
    pairPrev,    \* history: the decisions of the last finished match per pair
    lastMatch,   \* history: the call of execute_round_and_update_scores just made
    codec,       \* the codec functions applied to drawn inputs
    repro,       \* reproduce applied to drawn parents
    gen,         \* get_new_generation under way
    main         \* the Tournament of src/src/main.rs and its caller

vars == <<tour, rng, pc, run_iter, run_j, run_i, fatal, leaderboard,
          played, begun, pairPrev, lastMatch, codec, repro, gen, main>>

tourVars == <<tour, rng, pc, run_iter, run_j, run_i, fatal, leaderboard,
              played, begun, pairPrev, lastMatch>>

-----------------------------------------------------------------------------
(* Program constants *)

GENOME_LENGTH == 5
POPULATION_SIZE == 20
GENERATION_SIZE == 10

\* the length of PLAYER_INIT_DATA, and the literal 10 of the loops over it
NUM_PLAYERS == 10

\* the second argument of Grid::new in Tournament::from
SCORE_GRID_COLS == 10

(* Bounds of the model *)

\* iteration counts drawn for Tournament::from: 1..MaxIter
MaxIter == 2
\* the random source repeats with this period; seeds are 0 .. 2^CoinPeriod - 1
CoinPeriod == 2
\* base offsets of the drawn populations: 0..MaxOffset
MaxOffset == 1
\* calls of run() the caller makes on one tournament
MaxRuns == 2
\* codec functions applied in a row to one drawn input
MaxOps == 2
\* mutations that fire during one call of get_new_generation
MaxMutations == 1

-----------------------------------------------------------------------------
(* Decisions *)

Cooperate == "Cooperate"
Defect == "Defect"
None == "None"
Unreachable == "Unreachable"
Miss == "Miss"

Decision == {Cooperate, Defect}

\* impl Not for Decision; a panic in the operand propagates
Not(d) ==
    IF d = Cooperate THEN Defect
    ELSE IF d = Defect THEN Cooperate
    ELSE d

prisoners_dillemma_rules(p1move, p2move) ==
    IF p1move = Cooperate /\ p2move = Cooperate THEN <<-1, -1>>
    ELSE IF p1move = Cooperate /\ p2move = Defect THEN <<-3, 0>>
    ELSE IF p1move = Defect /\ p2move = Cooperate THEN <<0, -3>>
    ELSE <<-2, -2>>

-----------------------------------------------------------------------------
(* The random source *)

Seeds == 0 .. (2 ^ CoinPeriod - 1)

\* Bernoulli::sample on thread_rng: the next bit of the seeded stream
Sample(r) == ((r.seed \div (2 ^ (r.draws % CoinPeriod))) % 2) = 1

Advance(r) == [r EXCEPT !.draws = (r.draws + 1) % CoinPeriod]

-----------------------------------------------------------------------------
(* The canonical strategies *)

\* tit for tat that repeats its own previous move instead of the other's
good_tit_for_tat_own(own_prev_move, other_prev_move) ==
    IF other_prev_move = None THEN Cooperate ELSE own_prev_move

good_tit_for_tat(own_prev_move, other_prev_move) ==
    IF other_prev_move = None THEN Cooperate ELSE other_prev_move

sus_tit_for_tat(own_prev_move, other_prev_move) ==
    IF other_prev_move = None THEN Defect ELSE other_prev_move

naive(own_prev_move, other_prev_move) == Cooperate

evil(own_prev_move, other_prev_move) == Defect

random(coin) == IF coin THEN Cooperate ELSE Defect

xor(own_prev_move, other_prev_move) ==
    IF own_prev_move = None /\ other_prev_move = None THEN Cooperate
    ELSE IF own_prev_move = None \/ other_prev_move = None THEN Unreachable
    ELSE IF own_prev_move = other_prev_move THEN Defect
    ELSE Cooperate

opposite_tit_for_tat(own_prev_move, other_prev_move) ==
    Not(good_tit_for_tat(own_prev_move, other_prev_move))

xnor(own_prev_move, other_prev_move) ==
    IF own_prev_move = None /\ other_prev_move = None THEN Cooperate
    ELSE IF own_prev_move = None \/ other_prev_move = None THEN Unreachable
    ELSE IF own_prev_move = other_prev_move THEN Cooperate
    ELSE Defect

and(own_prev_move, other_prev_move) ==
    IF own_prev_move = None /\ other_prev_move = None THEN Cooperate
    ELSE IF own_prev_move = None \/ other_prev_move = None THEN Unreachable
    ELSE IF own_prev_move = Cooperate /\ other_prev_move = Cooperate THEN Cooperate
    ELSE Defect

nand(own_prev_move, other_prev_move) == Not(and(own_prev_move, other_prev_move))

random_biased(coin) == IF coin THEN Cooperate ELSE Defect

\* PLAYER_INIT_DATA: the names
PLAYER_NAMES ==
    [k \in 0 .. NUM_PLAYERS - 1 |->
        CASE k = 0 -> "trusting\nt4t"
          [] k = 1 -> "suspicious\nt4t"
          [] k = 2 -> "naive"
          [] k = 3 -> "evil"
          [] k = 4 -> "random"
          [] k = 5 -> "xor"
          [] k = 6 -> "opposite\nt4t"
          [] k = 7 -> "xnor"
          [] k = 8 -> "nand"
          [] OTHER -> "Bernoulli"]

\* PLAYER_INIT_DATA: which entries draw from the random source
IsStochastic(k) == k = 4 \/ k = 9

\* PLAYER_INIT_DATA: the strategy of entry k applied to a history
PlayerStrategy(k, own, other, coin) ==
    CASE k = 0 -> good_tit_for_tat(own, other)
      [] k = 1 -> sus_tit_for_tat(own, other)
      [] k = 2 -> naive(own, other)
      [] k = 3 -> evil(own, other)
      [] k = 4 -> random(coin)
      [] k = 5 -> xor(own, other)
      [] k = 6 -> opposite_tit_for_tat(own, other)
      [] k = 7 -> xnor(own, other)
      [] k = 8 -> nand(own, other)
      [] OTHER -> random_biased(coin)

-----------------------------------------------------------------------------
(* The genome codec *)

Bit(a, k) == (a \div (2 ^ k)) % 2

RECURSIVE BitOrFrom(_, _, _)
BitOrFrom(a, b, k) ==
    IF k = 8 THEN 0
    ELSE (IF Bit(a, k) = 1 \/ Bit(b, k) = 1 THEN 2 ^ k ELSE 0) + BitOrFrom(a, b, k + 1)

\* the operator | on u8
BitOr(a, b) == BitOrFrom(a, b, 0)

Genomes == [0 .. GENOME_LENGTH - 1 -> BOOLEAN]

number_to_genome(n) ==
    [k \in 0 .. GENOME_LENGTH - 1 |-> BitOr(n, 2 ^ k) # 0]

RECURSIVE GenomeAcc(_, _)
GenomeAcc(g, k) ==
    IF k < 0 THEN 0
    ELSE (IF g[k] THEN 2 ^ k ELSE 0) + GenomeAcc(g, k - 1)

\* the accumulation with every weight one bit too high
genome_to_number_shifted(g) == (2 * GenomeAcc(g, GENOME_LENGTH - 1)) % 256

genome_to_number(g) == GenomeAcc(g, GENOME_LENGTH - 1) % 256

-----------------------------------------------------------------------------
(* Strings of decimal digits: i32::to_string and str::parse::<u8> *)

to_string(n) ==
    IF n < 10 THEN <<n>>
    ELSE IF n < 100 THEN <<n \div 10, n % 10>>
    ELSE <<n \div 100, (n \div 10) % 10, n % 10>>

RECURSIVE ParseFrom(_, _, _)
ParseFrom(s, k, acc) ==
    IF k > Len(s) THEN acc ELSE ParseFrom(s, k + 1, acc * 10 + s[k])

\* -1 stands for the Err that unwrap() panics on
parse(s) ==
    LET v == ParseFrom(s, 1, 0) IN IF Len(s) = 0 \/ v > 255 THEN -1 ELSE v

-----------------------------------------------------------------------------
(* grid::Grid *)

Grid_new(rows, cols) ==
    [rows |-> rows, cols |-> cols,
     data |-> [k \in 0 .. rows * cols - 1 |-> <<0, 0>>]]

\* the bounds assertion of Index<(usize, usize)>
GridInBounds(g, row, col) == row < g.rows /\ col < g.cols

GridGet(g, row, col) == g.data[row * g.cols + col]

GridSet(g, row, col, v) == [g EXCEPT !.data[row * g.cols + col] = v]

-----------------------------------------------------------------------------
(* HashMap<String, Option<Decision>> as a function on its key set *)

MapGet(m, key) == IF key \in DOMAIN m THEN m[key] ELSE Miss

\* remove(key) followed by insert(key, v)
MapReplace(m, key, v) == [k \in (DOMAIN m) \cup {key} |-> IF k = key THEN v ELSE m[k]]

-----------------------------------------------------------------------------
(* Tournament *)

Players == 0 .. NUM_PLAYERS - 1
Slots == 0 .. POPULATION_SIZE - 1

\* the closure built per opponent in Tournament::from
GenomeStrategy(gene, own_pm, other_pm) ==
    IF own_pm = None /\ other_pm = None THEN gene[0]
    ELSE IF own_pm = None \/ other_pm = None THEN Unreachable
    ELSE IF own_pm = Cooperate /\ other_pm = Cooperate THEN gene[1]
    ELSE IF own_pm = Cooperate /\ other_pm = Defect THEN gene[2]
    ELSE IF own_pm = Defect /\ other_pm = Cooperate THEN gene[3]
    ELSE gene[4]

from(n_iter, opponent_starting_pop) ==
    LET opponent_names == [n \in Slots |-> to_string(opponent_starting_pop[n])]
        initial_player_memory == [key \in {opponent_names[n] : n \in Slots} |-> None]
        initial_opponent_memory == [key \in {PLAYER_NAMES[k] : k \in Players} |-> None]
    IN  [players |->
            [k \in Players |->
                [prev_move_self |-> initial_player_memory,
                 prev_move_other |-> initial_player_memory,
                 strategy_name |-> PLAYER_NAMES[k]]],
         opponents |->
            [n \in DOMAIN opponent_starting_pop |->
                [prev_move_self |-> initial_opponent_memory,
                 prev_move_other |-> initial_opponent_memory,
                 gene |-> [k \in 0 .. GENOME_LENGTH - 1 |->
                             IF number_to_genome(opponent_starting_pop[n])[k]
                             THEN Cooperate ELSE Defect],
                 strategy_name |-> to_string(opponent_starting_pop[n])]],
         scores |-> Grid_new(POPULATION_SIZE, SCORE_GRID_COLS),
         max_iter |-> n_iter]

\* the result of one call: the tournament and random source it leaves, the panic
\* message if it panicked, the decisions made and the histories the strategies got
Outcome(t, r, msg, pd, od, hp, ho) ==
    [t |-> t, rng |-> r, fatal |-> msg, player_decision |-> pd,
     opponent_decision |-> od, player_history |-> hp, opponent_history |-> ho]

\* "Update memories." with the two stores of the opponent exchanged
update_memories_swapped(t, i, j, player_decision, opponent_decision) ==
    LET pname == t.players[i].strategy_name
        oname == t.opponents[j].strategy_name
    IN  [t EXCEPT
            !.players[i].prev_move_self = MapReplace(@, oname, player_decision),
            !.players[i].prev_move_other = MapReplace(@, oname, opponent_decision),
            !.opponents[j].prev_move_self = MapReplace(@, pname, player_decision),
            !.opponents[j].prev_move_other = MapReplace(@, pname, opponent_decision)]

\* "Update memories." without the store of the opponent's decision in the player
update_memories_half(t, i, j, player_decision, opponent_decision) ==
    LET pname == t.players[i].strategy_name
        oname == t.opponents[j].strategy_name
    IN  [t EXCEPT
            !.players[i].prev_move_self = MapReplace(@, oname, player_decision),
            !.opponents[j].prev_move_self = MapReplace(@, pname, opponent_decision),
            !.opponents[j].prev_move_other = MapReplace(@, pname, player_decision)]

\* "Update memories." with the player's own move stored under every key
update_memories_all_keys(t, i, j, player_decision, opponent_decision) ==
    LET pname == t.players[i].strategy_name
        oname == t.opponents[j].strategy_name
    IN  [t EXCEPT
            !.players[i].prev_move_self = [k \in DOMAIN @ |-> player_decision],
            !.players[i].prev_move_other = MapReplace(@, oname, opponent_decision),
            !.opponents[j].prev_move_self = MapReplace(@, pname, opponent_decision),
            !.opponents[j].prev_move_other = MapReplace(@, pname, player_decision)]

\* "Update memories.": the four remove/insert pairs
update_memories(t, i, j, player_decision, opponent_decision) ==
    LET pname == t.players[i].strategy_name
        oname == t.opponents[j].strategy_name
    IN  [t EXCEPT
            !.players[i].prev_move_self = MapReplace(@, oname, player_decision),
            !.players[i].prev_move_other = MapReplace(@, oname, opponent_decision),
            !.opponents[j].prev_move_self = MapReplace(@, pname, opponent_decision),
            !.opponents[j].prev_move_other = MapReplace(@, pname, player_decision)]

execute_round_and_update_scores(t, r, i, j) ==
    LET player == t.players[i]
        opponent == t.opponents[j]
        hp == <<MapGet(player.prev_move_self, opponent.strategy_name),
                MapGet(player.prev_move_other, opponent.strategy_name)>>
        ho == <<MapGet(opponent.prev_move_self, player.strategy_name),
                MapGet(opponent.prev_move_other, player.strategy_name)>>
        player_decision == PlayerStrategy(i, hp[1], hp[2], Sample(r))
        r1 == IF IsStochastic(i) THEN Advance(r) ELSE r
        opponent_decision == GenomeStrategy(opponent.gene, ho[1], ho[2])
        reward == prisoners_dillemma_rules(opponent_decision, player_decision)
        cell == GridGet(t.scores, i, j)
        scored == [t EXCEPT !.scores =
                      GridSet(@, i, j, <<cell[1] + reward[1], cell[2] + reward[2]>>)]
    IN  IF Miss \in {hp[1], hp[2]}
        THEN Outcome(t, r, "player memory should be complete", None, None, hp, ho)
        ELSE IF player_decision = Unreachable
        THEN Outcome(t, r, "impossible move combination", None, None, hp, ho)
        ELSE IF Miss \in {ho[1], ho[2]}
        THEN Outcome(t, r1, "player memory should be complete", player_decision, None, hp, ho)
        ELSE IF opponent_decision = Unreachable
        THEN Outcome(t, r1, "impossible move combination", player_decision, None, hp, ho)
        ELSE IF ~GridInBounds(t.scores, i, j)
        THEN Outcome(t, r1, "grid index out of bounds", player_decision,
                     opponent_decision, hp, ho)
        ELSE Outcome(update_memories(scored, i, j, player_decision, opponent_decision),
                     r1, "", player_decision, opponent_decision, hp, ho)

\* run(): the loop over i for one j
RECURSIVE RunPlayers(_, _, _, _)
RunPlayers(t, r, i, j) ==
    IF i = NUM_PLAYERS THEN [t |-> t, rng |-> r, fatal |-> ""]
    ELSE LET res == execute_round_and_update_scores(t, r, i, j)
         IN  IF res.fatal # ""
             THEN [t |-> res.t, rng |-> res.rng, fatal |-> res.fatal]
             ELSE RunPlayers(res.t, res.rng, i + 1, j)

\* run(): the loop over j for one iteration
RECURSIVE RunOpponents(_, _, _)
RunOpponents(t, r, j) ==
    IF j = POPULATION_SIZE THEN [t |-> t, rng |-> r, fatal |-> ""]
    ELSE LET res == RunPlayers(t, r, 0, j)
         IN  IF res.fatal # "" THEN res ELSE RunOpponents(res.t, res.rng, j + 1)

\* run(): the loop over the iterations
RECURSIVE RunIterations(_, _, _)
RunIterations(t, r, n) ==
    IF n = t.max_iter THEN [t |-> t, rng |-> r, fatal |-> ""]
    ELSE LET res == RunOpponents(t, r, 0)
         IN  IF res.fatal # "" THEN res ELSE RunIterations(res.t, res.rng, n + 1)

\* one whole call of run()
run(t, r) == RunIterations(t, r, 0)

-----------------------------------------------------------------------------
(* select_ten_fittest *)

\* the loop over j: <<organism, acc>> per opponent, or the panic met on the way
RECURSIVE ScoreAccFrom(_, _, _)
ScoreAccFrom(t, jj, score_acc) ==
    IF jj = POPULATION_SIZE THEN [fatal |-> "", score_acc |-> score_acc]
    ELSE LET organism == parse(t.opponents[jj].strategy_name)
             RECURSIVE AccFrom(_, _)
             AccFrom(ii, acc) ==
                 IF ii = NUM_PLAYERS THEN acc
                 ELSE AccFrom(ii + 1, acc + GridGet(t.scores, ii, jj)[1])
         IN  IF organism = -1
             THEN [fatal |-> "called Result::unwrap() on an Err value",
                   score_acc |-> score_acc]
             ELSE IF \E ii \in Players : ~GridInBounds(t.scores, ii, jj)
             THEN [fatal |-> "grid index out of bounds", score_acc |-> score_acc]
             ELSE ScoreAccFrom(t, jj + 1, Append(score_acc, <<organism, AccFrom(0, 0)>>))

Front(s) == SubSeq(s, 1, Len(s) - 1)

RECURSIVE InsertByKey(_, _)
InsertByKey(s, x) ==
    IF s = <<>> \/ s[Len(s)][2] <= x[2] THEN Append(s, x)
    ELSE Append(InsertByKey(Front(s), x), s[Len(s)])

RECURSIVE SortFrom(_, _, _)
SortFrom(s, k, sorted) ==
    IF k > Len(s) THEN sorted ELSE SortFrom(s, k + 1, InsertByKey(sorted, s[k]))

\* Vec::sort_by_key(|&(_, n)| n): stable, ascending
sort_by_key(s) == SortFrom(s, 1, <<>>)

\* Vec::reverse
reverse(s) == [k \in 1 .. Len(s) |-> s[Len(s) + 1 - k]]

select_ten_fittest(t) ==
    LET scored == ScoreAccFrom(t, 0, <<>>)
        ranked == reverse(sort_by_key(scored.score_acc))
        all == [k \in 1 .. Len(ranked) |-> number_to_genome(ranked[k][1])]
    IN  IF scored.fatal # "" THEN [fatal |-> scored.fatal, leaderboard |-> <<>>]
        ELSE [fatal |-> "",
              leaderboard |-> IF Len(all) > 10 THEN SubSeq(all, 1, 10) ELSE all]

-----------------------------------------------------------------------------
(* The caller of the tournament *)

PopModuli == {1, 3, 32}

\* the population encodings drawn: 20 integers in [0,31], with and without repeats
Populations ==
    {[n \in Slots |-> (a + n) % m] : a \in 0 .. MaxOffset, m \in PopModuli}

NoMatch ==
    [called |-> FALSE, completed |-> FALSE, first |-> FALSE, i |-> 0, j |-> 0,
     pair_prev |-> <<None, None>>,
     player_decision |-> None, opponent_decision |-> None,
     player_history |-> <<None, None>>, opponent_history |-> <<None, None>>]

Unused == <<>>

InitTour ==
    /\ \E n_iter \in 1 .. MaxIter, pop \in Populations : tour = from(n_iter, pop)
    /\ \E seed \in Seeds : rng = [seed |-> seed, draws |-> 0]
    /\ pc = "idle"
    /\ run_iter = 0
    /\ run_j = 0
    /\ run_i = 0
    /\ fatal = <<"", "">>
    /\ leaderboard = <<>>
    /\ played = [p \in Players \X Slots |-> 0]
    /\ begun = 0
    /\ pairPrev = [p \in Players \X Slots |-> <<None, None>>]
    /\ lastMatch = NoMatch

Init ==
    /\ InitTour
    /\ codec = Unused
    /\ repro = Unused
    /\ gen = Unused
    /\ main = Unused

\* the caller calls run()
CallRun ==
    /\ pc = "idle"
    /\ begun + tour.max_iter <= MaxRuns * MaxIter
    /\ pc' = "run"
    /\ run_iter' = 0
    /\ run_j' = 0
    /\ run_i' = 0
    /\ UNCHANGED <<tour, rng, fatal, leaderboard, played, begun, pairPrev, lastMatch,
                   codec, repro, gen, main>>

\* one pass of the innermost loop body of run(), and the loop headers after it
RunStep ==
    /\ pc = "run"
    /\ LET res == execute_round_and_update_scores(tour, rng, run_i, run_j)
           ok == res.fatal = ""
           last_i == run_i + 1 = NUM_PLAYERS
           last_j == run_j + 1 = POPULATION_SIZE
           last_iter == run_iter + 1 = tour.max_iter
       IN  /\ tour' = res.t
           /\ rng' = res.rng
           /\ lastMatch' =
                  [called |-> TRUE, completed |-> ok, first |-> played[<<run_i, run_j>>] = 0,
                   i |-> run_i, j |-> run_j,
                   pair_prev |-> pairPrev[<<run_i, run_j>>],
                   player_decision |-> res.player_decision,
                   opponent_decision |-> res.opponent_decision,
                   player_history |-> res.player_history,
                   opponent_history |-> res.opponent_history]
           /\ played' = [played EXCEPT ![<<run_i, run_j>>] = @ + 1]
           /\ begun' = IF run_i = 0 /\ run_j = 0 THEN begun + 1 ELSE begun
           /\ pairPrev' =
                  IF ok
                  THEN [pairPrev EXCEPT ![<<run_i, run_j>>] =
                            <<res.player_decision, res.opponent_decision>>]
                  ELSE pairPrev
           /\ fatal' = IF ok THEN fatal ELSE <<"run", res.fatal>>
           /\ pc' = IF ~ok THEN "aborted"
                    ELSE IF last_i /\ last_j /\ last_iter THEN "idle"
                    ELSE "run"
           /\ run_i' = IF ~ok THEN run_i ELSE IF last_i THEN 0 ELSE run_i + 1
           /\ run_j' = IF ~ok \/ ~last_i THEN run_j ELSE IF last_j THEN 0 ELSE run_j + 1
           /\ run_iter' = IF ok /\ last_i /\ last_j /\ ~last_iter
                          THEN run_iter + 1 ELSE run_iter
    /\ UNCHANGED <<leaderboard, codec, repro, gen, main>>

\* the caller calls select_ten_fittest()
SelectTenFittest ==
    /\ pc = "idle"
    /\ LET res == select_ten_fittest(tour)
       IN  /\ leaderboard' = res.leaderboard
           /\ fatal' = IF res.fatal = "" THEN fatal
                       ELSE <<"select_ten_fittest", res.fatal>>
           /\ pc' = IF res.fatal = "" THEN "idle" ELSE "aborted"
    /\ UNCHANGED <<tour, rng, run_iter, run_j, run_i, played, begun, pairPrev,
                   lastMatch, codec, repro, gen, main>>

Next == CallRun \/ RunStep \/ SelectTenFittest

Spec == Init /\ [][Next]_vars

-----------------------------------------------------------------------------
(* Claims about the tournament, checked under Spec *)

\* C1: run() never reaches a fatal condition: every score-matrix access (i, j) it
\* makes lies inside the dimensions of the matrix and no call of
\* execute_round_and_update_scores panics.
C1_RunNeverFatal ==
    /\ fatal[1] # "run"
    /\ lastMatch.called => GridInBounds(tour.scores, lastMatch.i, lastMatch.j)

\* C4: in every iteration of run() each (canonical player, opponent) pair is played
\* exactly once: inside an iteration a pair has been played in all the iterations
\* begun or in all but the current one, and whenever run() is not under way every
\* pair has been played once per iteration begun.
C4_EveryPairOncePerIteration ==
    /\ \A p \in Players \X Slots : played[p] \in {begun - 1, begun}
    /\ pc # "run" => \A p \in Players \X Slots : played[p] = begun

\* C5: score-matrix additivity. For the tournament as constructed with iteration
\* count k, two calls of run() return and leave, in the cells of the deterministic
\* canonical players, the scores that one call of run() leaves in a tournament
\* constructed from the same population with iteration count 2k.
C5_ScoreAdditivity ==
    (pc = "idle" /\ begun = 0) =>
        LET first == run(tour, rng)
            second == run(first.t, first.rng)
            once == run([tour EXCEPT !.max_iter = 2 * tour.max_iter], rng)
        IN  /\ first.fatal = ""
            /\ second.fatal = ""
            /\ once.fatal = ""
            /\ \A ii \in Players, jj \in Slots :
                   ~IsStochastic(ii) =>
                       /\ GridInBounds(second.t.scores, ii, jj)
                       /\ GridGet(second.t.scores, ii, jj) = GridGet(once.t.scores, ii, jj)

\* C6: memory symmetry. Immediately after a match between canonical player A and
\* opponent B, A.prev_move_other[B] = B.prev_move_self[A] is the decision B just
\* made and A.prev_move_self[B] = B.prev_move_other[A] is the decision A just made.
C6_MemorySymmetry ==
    lastMatch.completed =>
        LET A == tour.players[lastMatch.i]
            B == tour.opponents[lastMatch.j]
        IN  /\ lastMatch.player_decision \in Decision
            /\ lastMatch.opponent_decision \in Decision
            /\ A.prev_move_other[B.strategy_name] = lastMatch.opponent_decision
            /\ B.prev_move_self[A.strategy_name] = lastMatch.opponent_decision
            /\ A.prev_move_self[B.strategy_name] = lastMatch.player_decision
            /\ B.prev_move_other[A.strategy_name] = lastMatch.player_decision

\* a match has just finished in which the two sides decided differently
C6_Witness ==
    /\ lastMatch.completed
    /\ lastMatch.player_decision # lastMatch.opponent_decision

\* C7: per-pair memory is isolated. The history the strategy of canonical player A
\* receives for a match against slot j is (None, None) in the first match of the
\* pair and otherwise the two decisions of the previous match of that same pair.
C7_PairMemoryIsolated ==
    lastMatch.called =>
        /\ lastMatch.first => lastMatch.pair_prev = <<None, None>>
        /\ lastMatch.player_history = lastMatch.pair_prev

\* aggregate fitness of slot n: the opponent-side components of its score cells
Fitness(n) ==
    LET RECURSIVE Sum(_)
        Sum(ii) == IF ii = NUM_PLAYERS THEN 0
                   ELSE tour.scores.data[ii * tour.scores.cols + n][1] + Sum(ii + 1)
    IN  Sum(0)

\* the slots that rank before slot n: fitter, or as fit and earlier in the population
Before(n) ==
    {m \in Slots : Fitness(m) > Fitness(n) \/ (Fitness(m) = Fitness(n) /\ m < n)}

\* the genome that the opponent in slot n plays
OpponentGenome(n) ==
    [k \in 0 .. GENOME_LENGTH - 1 |-> tour.opponents[n].gene[k] = Cooperate]

\* C8: select_ten_fittest returns exactly 10 genomes, those of the opponents ranked
\* highest by aggregate fitness, in descending fitness, opponents of equal fitness
\* in their population order.
C8_SelectTenFittest ==
    /\ fatal[1] # "select_ten_fittest"
    /\ leaderboard # <<>> =>
           /\ Len(leaderboard) = 10
           /\ \A n \in Slots :
                  Cardinality(Before(n)) < 10 =>
                      leaderboard[Cardinality(Before(n)) + 1] = OpponentGenome(n)

-----------------------------------------------------------------------------
(* The codec functions applied to drawn inputs *)

InitCodec ==
    /\ \E n \in 0 .. 31, g \in Genomes :
           codec = [n0 |-> n, g0 |-> g, num |-> n, genome |-> g,
                    arg_n |-> n, arg_g |-> g, trail |-> <<>>]
    /\ tour = Unused /\ rng = Unused /\ pc = Unused /\ run_iter = Unused
    /\ run_j = Unused /\ run_i = Unused /\ fatal = Unused /\ leaderboard = Unused
    /\ played = Unused /\ begun = Unused /\ pairPrev = Unused /\ lastMatch = Unused
    /\ repro = Unused
    /\ gen = Unused
    /\ main = Unused

NumberToGenome ==
    /\ Len(codec.trail) < MaxOps
    /\ codec' = [codec EXCEPT !.genome = number_to_genome(codec.num),
                              !.arg_n = codec.num,
                              !.trail = Append(@, "number_to_genome")]
    /\ UNCHANGED <<tourVars, repro, gen, main>>

GenomeToNumber ==
    /\ Len(codec.trail) < MaxOps
    /\ codec' = [codec EXCEPT !.num = genome_to_number(codec.genome),
                              !.arg_g = codec.genome,
                              !.trail = Append(@, "genome_to_number")]
    /\ UNCHANGED <<tourVars, repro, gen, main>>

NextCodec == NumberToGenome \/ GenomeToNumber

SpecCodec == InitCodec /\ [][NextCodec]_vars

LastOp == IF codec.trail = <<>> THEN "" ELSE codec.trail[Len(codec.trail)]

\* C2: codec round trip: genome_to_number(number_to_genome(n)) = n for n in [0,31].
C2_RoundTrip ==
    codec.trail = <<"number_to_genome", "genome_to_number">> => codec.num = codec.n0

\* the sum of 2^(4-i) over the positions i where g[i] is true
MsbFirstSum(g) ==
    LET RECURSIVE Sum(_)
        Sum(k) == IF k = GENOME_LENGTH THEN 0
                  ELSE (IF g[k] THEN 2 ^ (GENOME_LENGTH - 1 - k) ELSE 0) + Sum(k + 1)
    IN  Sum(0)

\* C3: the codec is most-significant-bit-first over 5 bits: genome_to_number(g) is
\* the sum of 2^(4-i) over the true positions i of g, and number_to_genome(n)[i] is
\* true exactly when that bit of n is set.
C3_MsbFirst ==
    /\ LastOp = "genome_to_number" => codec.num = MsbFirstSum(codec.arg_g)
    /\ LastOp = "number_to_genome" =>
           \A k \in 0 .. GENOME_LENGTH - 1 :
               codec.genome[k] = (Bit(codec.arg_n, GENOME_LENGTH - 1 - k) = 1)

-----------------------------------------------------------------------------
(* The genetic operators *)

\* what the random source gives one child: whether Bernoulli(0.1) fires and, if it
\* does, the index gen_range(0..=4) returns
Draws ==
    {[fires |-> FALSE, at |-> 0]} \cup {[fires |-> TRUE, at |-> k] : k \in 0 .. 4}

\* the flip spilling over to the next index
mutate_two(gene, at) ==
    [gene EXCEPT ![at] = ~@, ![(at + 1) % GENOME_LENGTH] = ~@]

mutate(gene, at) == [gene EXCEPT ![at] = ~@]

\* the crossover loop with the cut after index 1
crossover_cut_at_2(p1, p2) ==
    <<[k \in 0 .. GENOME_LENGTH - 1 |-> IF k < 2 THEN p1[k] ELSE p2[k]],
      [k \in 0 .. GENOME_LENGTH - 1 |-> IF k < 2 THEN p2[k] ELSE p1[k]]>>

\* the crossover loop of reproduce: <<child1, child2>> before mutation
crossover(p1, p2) ==
    <<[k \in 0 .. GENOME_LENGTH - 1 |-> IF k < 3 THEN p1[k] ELSE p2[k]],
      [k \in 0 .. GENOME_LENGTH - 1 |-> IF k < 3 THEN p2[k] ELSE p1[k]]>>

reproduce(p1, p2, d1, d2) ==
    LET c == crossover(p1, p2)
    IN  <<IF d1.fires THEN mutate(c[1], d1.at) ELSE c[1],
          IF d2.fires THEN mutate(c[2], d2.at) ELSE c[2]>>

InitRepro ==
    /\ \E p1 \in Genomes, p2 \in Genomes :
           repro = [p1 |-> p1, p2 |-> p2, child1 |-> p1, child2 |-> p2,
                    d1 |-> [fires |-> FALSE, at |-> 0],
                    d2 |-> [fires |-> FALSE, at |-> 0], done |-> FALSE]
    /\ tour = Unused /\ rng = Unused /\ pc = Unused /\ run_iter = Unused
    /\ run_j = Unused /\ run_i = Unused /\ fatal = Unused /\ leaderboard = Unused
    /\ played = Unused /\ begun = Unused /\ pairPrev = Unused /\ lastMatch = Unused
    /\ codec = Unused
    /\ gen = Unused
    /\ main = Unused

Reproduce ==
    /\ ~repro.done
    /\ \E d1 \in Draws, d2 \in Draws :
           LET children == reproduce(repro.p1, repro.p2, d1, d2)
           IN  repro' = [repro EXCEPT !.child1 = children[1], !.child2 = children[2],
                                      !.d1 = d1, !.d2 = d2, !.done = TRUE]
    /\ UNCHANGED <<tourVars, codec, gen, main>>

NextRepro == Reproduce

SpecRepro == InitRepro /\ [][NextRepro]_vars

\* C9 as stated: with no mutation the child has the genes of p1 at the even
\* positions and the genes of p2 at the odd positions.
C9_EvenOddLaw ==
    (repro.done /\ ~repro.d1.fires) =>
        \A k \in 0 .. GENOME_LENGTH - 1 :
            repro.child1[k] = (IF k % 2 = 0 THEN repro.p1[k] ELSE repro.p2[k])

\* C9 as amended: reproduce returns two children; a child whose mutation does not
\* fire is a single-point crossover: the first child has the genes of p1 at
\* positions 0..2 and of p2 at positions 3..4, the second child the converse.
C9_SinglePointLaw ==
    repro.done =>
        /\ ~repro.d1.fires =>
               \A k \in 0 .. GENOME_LENGTH - 1 :
                   repro.child1[k] = (IF k \in {0, 1, 2} THEN repro.p1[k] ELSE repro.p2[k])
        /\ ~repro.d2.fires =>
               \A k \in 0 .. GENOME_LENGTH - 1 :
                   repro.child2[k] = (IF k \in {0, 1, 2} THEN repro.p2[k] ELSE repro.p1[k])

\* reproduce returned without mutation for parents that differ at every position
C9_Witness ==
    /\ repro.done
    /\ ~repro.d1.fires
    /\ ~repro.d2.fires
    /\ \A k \in 0 .. GENOME_LENGTH - 1 : repro.p1[k] # repro.p2[k]

-----------------------------------------------------------------------------
(* get_new_generation *)

\* a genome given by its bits, least significant first
FromBits(n) == [k \in 0 .. GENOME_LENGTH - 1 |-> Bit(n, k) = 1]

ParentStrides == {3, 7}

\* the lists of 10 parents drawn: varied genomes, and the lists number_to_genome
\* gives select_ten_fittest
ParentLists ==
    {[k \in 0 .. GENERATION_SIZE - 1 |-> FromBits((a + s * k) % 32)] :
        a \in 0 .. MaxOffset, s \in ParentStrides}
    \cup {[k \in 0 .. GENERATION_SIZE - 1 |-> number_to_genome(a)] : a \in 0 .. MaxOffset}

\* the loop body with the second parent taken two places on
push_children_skipping(old_gen, new_gen, i, d1, d2) ==
    LET children == reproduce(old_gen[i], old_gen[(i + 2) % GENERATION_SIZE], d1, d2)
    IN  Append(Append(new_gen, children[1]), children[2])

\* the loop body of get_new_generation: new_gen after pass i
push_children(old_gen, new_gen, i, d1, d2) ==
    LET children == reproduce(old_gen[i], old_gen[(i + 1) % GENERATION_SIZE], d1, d2)
    IN  Append(Append(new_gen, children[1]), children[2])

\* the map over new_gen that ends get_new_generation
encode_all(new_gen) == [k \in 1 .. Len(new_gen) |-> genome_to_number(new_gen[k])]

Fired(d1, d2) == (IF d1.fires THEN 1 ELSE 0) + (IF d2.fires THEN 1 ELSE 0)

InitGen ==
    /\ \E old_gen \in ParentLists :
           gen = [old_gen |-> old_gen, i |-> 0, new_gen |-> <<>>, draws |-> <<>>,
                  mutations |-> 0, result |-> <<>>, done |-> FALSE]
    /\ tour = Unused /\ rng = Unused /\ pc = Unused /\ run_iter = Unused
    /\ run_j = Unused /\ run_i = Unused /\ fatal = Unused /\ leaderboard = Unused
    /\ played = Unused /\ begun = Unused /\ pairPrev = Unused /\ lastMatch = Unused
    /\ codec = Unused
    /\ repro = Unused
    /\ main = Unused

\* one pass of the loop of get_new_generation, and after the last pass the encoding
GenStep ==
    /\ ~gen.done
    /\ \E d1 \in Draws, d2 \in Draws :
           /\ gen.mutations + Fired(d1, d2) <= MaxMutations
           /\ LET pushed == push_children(gen.old_gen, gen.new_gen, gen.i, d1, d2)
                  last == gen.i + 1 = GENERATION_SIZE
              IN  gen' = [gen EXCEPT !.new_gen = pushed,
                                     !.i = gen.i + 1,
                                     !.draws = Append(@, <<d1, d2>>),
                                     !.mutations = @ + Fired(d1, d2),
                                     !.result = IF last THEN encode_all(pushed) ELSE @,
                                     !.done = last]
    /\ UNCHANGED <<tourVars, codec, repro, main>>

NextGen == GenStep

SpecGen == InitGen /\ [][NextGen]_vars

\* C10 as stated: the first 10 members of the returned population are the encodings
\* of the 10 parents in order, and member 10+i is the encoding of the child of
\* parent[i] crossed with parent[(i+1) mod 10].
C10_ParentsKept ==
    gen.done =>
        \A k \in 0 .. GENERATION_SIZE - 1 :
            /\ gen.result[k + 1] = genome_to_number(gen.old_gen[k])
            /\ gen.result[GENERATION_SIZE + k + 1] =
                   genome_to_number(
                       reproduce(gen.old_gen[k], gen.old_gen[(k + 1) % GENERATION_SIZE],
                                 gen.draws[k + 1][1], gen.draws[k + 1][2])[1])

\* C10 as amended: the returned population has 20 members and holds no parent as
\* such: members 2i and 2i+1 are the encodings of the first and the second child
\* that reproduce returns for parent[i] and parent[(i+1) mod 10], for i in 0..10.
C10_ChildrenOnly ==
    gen.done =>
        /\ Len(gen.result) = 2 * GENERATION_SIZE
        /\ \A k \in 0 .. GENERATION_SIZE - 1 :
               LET children ==
                       reproduce(gen.old_gen[k], gen.old_gen[(k + 1) % GENERATION_SIZE],
                                 gen.draws[k + 1][1], gen.draws[k + 1][2])
               IN  /\ gen.result[2 * k + 1] = genome_to_number(children[1])
                   /\ gen.result[2 * k + 2] = genome_to_number(children[2])

\* get_new_generation returned for parents that are not all alike, one mutation fired
C10_Witness ==
    /\ gen.done
    /\ gen.mutations > 0
    /\ \E k \in 0 .. GENERATION_SIZE - 1 : gen.old_gen[k] # gen.old_gen[0]

\* C11: generation size invariant: for any 10 five-element genomes and any outcome
\* of the mutation draws, get_new_generation returns exactly 20 integers, each in
\* [0,31].
C11_GenerationSize ==
    gen.done =>
        /\ Len(gen.result) = POPULATION_SIZE
        /\ \A k \in 1 .. Len(gen.result) : gen.result[k] \in 0 .. 31

\* get_new_generation returned after a mutation, and a member has the greatest encoding
C11_Witness ==
    /\ gen.done
    /\ gen.mutations > 0
    /\ \E k \in 1 .. Len(gen.result) : gen.result[k] = 31

\* the positions at which two genomes differ
DiffAt(g, h) == {k \in 0 .. GENOME_LENGTH - 1 : g[k] # h[k]}

\* C14: mutate flips exactly one of the 5 positions, the one drawn, and leaves the
\* other four unchanged; so each child that reproduce returns differs from its
\* crossover result at exactly the drawn position if its mutation fired and nowhere
\* otherwise, hence in at most one position.
C14_MutationFlipsOne ==
    repro.done =>
        LET c == crossover(repro.p1, repro.p2)
        IN  /\ DiffAt(repro.child1, c[1]) = (IF repro.d1.fires THEN {repro.d1.at} ELSE {})
            /\ DiffAt(repro.child2, c[2]) = (IF repro.d2.fires THEN {repro.d2.at} ELSE {})
            /\ Cardinality(DiffAt(repro.child1, c[1])) <= 1
            /\ Cardinality(DiffAt(repro.child2, c[2])) <= 1

\* reproduce returned with both mutations fired, at different positions
C14_Witness ==
    /\ repro.done
    /\ repro.d1.fires
    /\ repro.d2.fires
    /\ repro.d1.at # repro.d2.at

-----------------------------------------------------------------------------
(* Further claims about the tournament, under Spec *)

\* the two maps of participant P say None for the same keys
NoneTogether(P) ==
    /\ DOMAIN P.prev_move_self = DOMAIN P.prev_move_other
    /\ \A k \in DOMAIN P.prev_move_self :
           (P.prev_move_self[k] = None) <=> (P.prev_move_other[k] = None)

\* C13: in every reachable state of a tournament run, for every player or opponent
\* P and every identity k in its memory, P.prev_move_self[k] is None exactly when
\* P.prev_move_other[k] is None; no strategy is called with exactly one None
\* argument and the "impossible move combination" branch is never reached.
C13_NoneTogether ==
    /\ \A p \in Players : NoneTogether(tour.players[p])
    /\ \A n \in Slots : NoneTogether(tour.opponents[n])
    /\ lastMatch.called =>
           /\ (lastMatch.player_history[1] = None) <=> (lastMatch.player_history[2] = None)
           /\ (lastMatch.opponent_history[1] = None) <=> (lastMatch.opponent_history[2] = None)
    /\ fatal[2] # "impossible move combination"

\* a strategy has just been called with a history of two decisions
C13_Witness ==
    /\ lastMatch.called
    /\ lastMatch.player_history[1] \in Decision
    /\ lastMatch.player_history[2] \in Decision

\* what a match of player i against slot j may change between tournaments t and u
MatchFrame(t, u, i, j) ==
    LET pname == t.players[i].strategy_name
        oname == t.opponents[j].strategy_name
    IN  /\ u.max_iter = t.max_iter
        /\ u.scores.rows = t.scores.rows
        /\ u.scores.cols = t.scores.cols
        /\ DOMAIN u.scores.data = DOMAIN t.scores.data
        /\ \A k \in DOMAIN t.scores.data :
               k # i * t.scores.cols + j => u.scores.data[k] = t.scores.data[k]
        /\ \A p \in Players : p # i => u.players[p] = t.players[p]
        /\ \A n \in Slots : n # j => u.opponents[n] = t.opponents[n]
        /\ u.players[i].strategy_name = pname
        /\ u.opponents[j].strategy_name = oname
        /\ u.opponents[j].gene = t.opponents[j].gene
        /\ DOMAIN u.players[i].prev_move_self = DOMAIN t.players[i].prev_move_self
        /\ DOMAIN u.players[i].prev_move_other = DOMAIN t.players[i].prev_move_other
        /\ DOMAIN u.opponents[j].prev_move_self = DOMAIN t.opponents[j].prev_move_self
        /\ DOMAIN u.opponents[j].prev_move_other = DOMAIN t.opponents[j].prev_move_other
        /\ \A k \in DOMAIN t.players[i].prev_move_self :
               k # oname =>
                   /\ u.players[i].prev_move_self[k] = t.players[i].prev_move_self[k]
                   /\ u.players[i].prev_move_other[k] = t.players[i].prev_move_other[k]
        /\ \A k \in DOMAIN t.opponents[j].prev_move_self :
               k # pname =>
                   /\ u.opponents[j].prev_move_self[k] = t.opponents[j].prev_move_self[k]
                   /\ u.opponents[j].prev_move_other[k] = t.opponents[j].prev_move_other[k]

\* C15: a single match between canonical player i and opponent j changes only the
\* score cell of pair (i, j), the two memory entries of player i for opponent j and
\* the two memory entries of opponent j for player i; every other score cell, all
\* other memory and the key sets of all memory maps stay as they were.
C15_MatchFrame ==
    [][pc = "run" => MatchFrame(tour, tour', run_i, run_j)]_vars

\* a match other than the first of its row and column has just finished
C15_Witness ==
    /\ lastMatch.completed
    /\ lastMatch.i > 0
    /\ lastMatch.j > 0

-----------------------------------------------------------------------------
(* The Tournament of src/src/main.rs: initialise_from and iterate_round *)

\* the largest n_iter drawn
MaxMainIter == 3

\* vec![(0, 0); 100] and the column count given to Grid::from_vec
MAIN_GRID_CELLS == 100
MAIN_GRID_COLS == 10

\* the length of player_init_data, and the literal 10 of for j in 0..10
MAIN_NUM_PLAYERS == 10

MainPlayers == 0 .. MAIN_NUM_PLAYERS - 1

\* player_init_data: the names
player_init_names ==
    [k \in MainPlayers |->
        CASE k = 0 -> "trusting tit for tat"
          [] k = 1 -> "suspicious tit for tat"
          [] k = 2 -> "naive"
          [] k = 3 -> "evil"
          [] k = 4 -> "random"
          [] k = 5 -> "xor logic"
          [] k = 6 -> "opposite tit for tat"
          [] k = 7 -> "xnor logic"
          [] k = 8 -> "nand logic"
          [] OTHER -> "Bernoulli uncooperative"]

\* player_init_data: which tables draw from the random source
TableIsStochastic(k) == k = 4 \/ k = 9

\* player_init_data: the decision table of entry k applied to a history
DecisionTable(k, own, other, coin) ==
    CASE k = 0 -> good_tit_for_tat(own, other)
      [] k = 1 -> sus_tit_for_tat(own, other)
      [] k = 2 -> naive(own, other)
      [] k = 3 -> evil(own, other)
      [] k = 4 -> random(coin)
      [] k = 5 -> xor(own, other)
      [] k = 6 -> opposite_tit_for_tat(own, other)
      [] k = 7 -> xnor(own, other)
      [] k = 8 -> nand(own, other)
      [] OTHER -> random_biased(coin)

Grid_from_vec(len, cols) ==
    [rows |-> len \div cols, cols |-> cols,
     data |-> [k \in 0 .. len - 1 |-> <<0, 0>>]]

initialise_from(n_iter) ==
    LET initial_player_memory ==
            [key \in {player_init_names[k] : k \in MainPlayers} |-> None]
    IN  [players |->
            [k \in MainPlayers |->
                [prev_move_self |-> initial_player_memory,
                 prev_move_other |-> initial_player_memory,
                 strategy_name |-> player_init_names[k]]],
         scores |-> Grid_from_vec(MAIN_GRID_CELLS, MAIN_GRID_COLS),
         max_iter |-> n_iter,
         current_iter |-> 0]

\* the test that opens iterate_round, with > for ==
iterations_done_past(t) == t.current_iter > t.max_iter

\* the test that opens iterate_round
iterations_done(t) == t.current_iter = t.max_iter

\* the body of the inner loop of iterate_round: player i of the tournament against
\* entry j of the local clone opponents
round_body(t, opponents, r, i, j) ==
    LET player == t.players[i]
        opponent == opponents[j]
        hp == <<MapGet(player.prev_move_self, opponent.strategy_name),
                MapGet(player.prev_move_other, opponent.strategy_name)>>
        ho == <<MapGet(opponent.prev_move_self, player.strategy_name),
                MapGet(opponent.prev_move_other, player.strategy_name)>>
        player_decision == DecisionTable(i, hp[1], hp[2], Sample(r))
        r1 == IF TableIsStochastic(i) THEN Advance(r) ELSE r
        opponent_decision == DecisionTable(j, ho[1], ho[2], Sample(r1))
        r2 == IF TableIsStochastic(j) THEN Advance(r1) ELSE r1
        reward == prisoners_dillemma_rules(opponent_decision, player_decision)
        cell == GridGet(t.scores, i, j)
        scored == [t EXCEPT !.scores =
                      GridSet(@, i, j, <<cell[1] + reward[1], cell[2] + reward[2]>>)]
        t2 == [scored EXCEPT
                  !.players[i].prev_move_self =
                      MapReplace(@, opponent.strategy_name, player_decision),
                  !.players[i].prev_move_other =
                      MapReplace(@, opponent.strategy_name, opponent_decision)]
        o2 == [opponents EXCEPT
                  ![j].prev_move_self =
                      MapReplace(@, player.strategy_name, opponent_decision),
                  ![j].prev_move_other =
                      MapReplace(@, player.strategy_name, player_decision)]
        Result(tt, oo, rr, msg, pd, od) ==
            [t |-> tt, opponents |-> oo, rng |-> rr, fatal |-> msg,
             player_decision |-> pd, opponent_decision |-> od,
             player_history |-> hp, opponent_history |-> ho]
    IN  IF Miss \in {hp[1], hp[2]}
        THEN Result(t, opponents, r, "player memory should be complete", None, None)
        ELSE IF player_decision = Unreachable
        THEN Result(t, opponents, r, "impossible move compination", None, None)
        ELSE IF Miss \in {ho[1], ho[2]}
        THEN Result(t, opponents, r1, "player memory should be complete",
                    player_decision, None)
        ELSE IF opponent_decision = Unreachable
        THEN Result(t, opponents, r2, "impossible move compination",
                    player_decision, None)
        ELSE IF ~GridInBounds(t.scores, i, j)
        THEN Result(t, opponents, r2, "grid index out of bounds",
                    player_decision, opponent_decision)
        ELSE Result(t2, o2, r2, "", player_decision, opponent_decision)

NoRound ==
    [called |-> FALSE, iter |-> 0, i |-> 0, j |-> 0, pair_prev |-> <<None, None>>,
     player_decision |-> None, opponent_decision |-> None,
     player_history |-> <<None, None>>, opponent_history |-> <<None, None>>]

InitMain ==
    /\ \E n_iter \in 0 .. MaxMainIter, seed \in Seeds :
           main = [t |-> initialise_from(n_iter),
                   rng |-> [seed |-> seed, draws |-> 0],
                   pc |-> "idle", ret |-> "", fatal |-> "",
                   opponents |-> <<>>, upperlim |-> 0, j |-> 0, i |-> 0,
                   at_call |-> initialise_from(n_iter),
                   log |-> [p \in MainPlayers \X MainPlayers |-> <<>>],
                   last |-> NoRound]
    /\ tour = Unused /\ rng = Unused /\ pc = Unused /\ run_iter = Unused
    /\ run_j = Unused /\ run_i = Unused /\ fatal = Unused /\ leaderboard = Unused
    /\ played = Unused /\ begun = Unused /\ pairPrev = Unused /\ lastMatch = Unused
    /\ codec = Unused
    /\ repro = Unused
    /\ gen = Unused

\* iterate_round called when no iteration is left: return None
IterateRoundNone ==
    /\ main.pc = "idle"
    /\ iterations_done(main.t)
    /\ main' = [main EXCEPT !.ret = "None", !.at_call = main.t]
    /\ UNCHANGED <<tourVars, codec, repro, gen>>

\* iterate_round called with an iteration left: upperlim, the clone, the loop heads
IterateRoundEnter ==
    /\ main.pc = "idle"
    /\ ~iterations_done(main.t)
    /\ main' = [main EXCEPT !.pc = "round", !.ret = "", !.at_call = main.t,
                            !.upperlim = 1, !.opponents = main.t.players,
                            !.j = 0, !.i = 0]
    /\ UNCHANGED <<tourVars, codec, repro, gen>>

\* one pass of the inner loop body of iterate_round and the loop heads after it;
\* after the last pass current_iter += 1 and Some(()) is returned
IterateRoundStep ==
    /\ main.pc = "round"
    /\ LET res == round_body(main.t, main.opponents, main.rng, main.i, main.j)
           ok == res.fatal = ""
           last_i == main.i + 1 = main.upperlim
           last_j == main.j + 1 = MAIN_NUM_PLAYERS
           finished == ok /\ last_i /\ last_j
           pair == <<main.i, main.j>>
       IN  main' =
               [main EXCEPT
                   !.t = IF finished THEN [res.t EXCEPT !.current_iter = @ + 1]
                         ELSE res.t,
                   !.opponents = IF finished THEN <<>> ELSE res.opponents,
                   !.rng = res.rng,
                   !.fatal = res.fatal,
                   !.pc = IF ~ok THEN "aborted" ELSE IF finished THEN "idle" ELSE "round",
                   !.ret = IF finished THEN "Some" ELSE "",
                   !.i = IF ~ok THEN @ ELSE IF last_i THEN 0 ELSE @ + 1,
                   !.upperlim = IF finished THEN 0 ELSE IF ok /\ last_i THEN @ + 1 ELSE @,
                   !.j = IF finished THEN 0 ELSE IF ok /\ last_i THEN @ + 1 ELSE @,
                   !.log = IF ok
                           THEN [@ EXCEPT ![pair] =
                                    Append(@, <<res.player_decision, res.opponent_decision>>)]
                           ELSE @,
                   !.last = [called |-> TRUE, iter |-> main.t.current_iter,
                             i |-> main.i, j |-> main.j,
                             pair_prev |-> IF main.log[pair] = <<>> THEN <<None, None>>
                                           ELSE main.log[pair][Len(main.log[pair])],
                             player_decision |-> res.player_decision,
                             opponent_decision |-> res.opponent_decision,
                             player_history |-> res.player_history,
                             opponent_history |-> res.opponent_history]]
    /\ UNCHANGED <<tourVars, codec, repro, gen>>

NextMain == IterateRoundNone \/ IterateRoundEnter \/ IterateRoundStep

SpecMain == InitMain /\ [][NextMain]_vars

-----------------------------------------------------------------------------
(* Claims about the Tournament of src/src/main.rs, under SpecMain *)

\* the scenario of C12: trusting tit for tat is player 0, evil is opponent 3
TitForTat == 0
Evil == 3

\* round n of the scenario: the decisions <<tit for tat, evil>> and the cell
\* <<score of evil, score of tit for tat>> after it
ScenarioRound(n) ==
    CASE n = 1 -> [decisions |-> <<Cooperate, Defect>>, cell |-> <<0, -3>>]
      [] n = 2 -> [decisions |-> <<Defect, Defect>>, cell |-> <<-2, -5>>]
      [] OTHER -> [decisions |-> <<Defect, Defect>>, cell |-> <<-4, -7>>]

\* C12: under the prisoner's-dilemma rules, trusting tit for tat against evil from
\* fresh memory decides (Cooperate, Defect), (Defect, Defect), (Defect, Defect) in
\* rounds 1 to 3, and after round 3 the cumulative score of tit for tat is -7 and
\* that of evil is -4.
C12_TitForTatVsEvil ==
    LET rounds == main.log[<<TitForTat, Evil>>]
    IN  \A n \in 1 .. 3 :
            /\ Len(rounds) >= n => rounds[n] = ScenarioRound(n).decisions
            /\ Len(rounds) = n =>
                   GridGet(main.t.scores, TitForTat, Evil) = ScenarioRound(n).cell

\* the third round of the scenario has been played
C12_Witness ==
    /\ Len(main.log[<<TitForTat, Evil>>]) = 3
    /\ GridGet(main.t.scores, TitForTat, Evil) = <<-4, -7>>

\* C16: current_iter never exceeds max_iter; a call of iterate_round made while
\* current_iter < max_iter returns Some and increments current_iter by exactly 1;
\* a call made once current_iter == max_iter returns None and leaves scores,
\* memory and current_iter unchanged.
C16_IterationBound ==
    /\ main.t.current_iter <= main.t.max_iter
    /\ main.fatal = ""
    /\ main.pc = "round" =>
           /\ main.at_call.current_iter < main.at_call.max_iter
           /\ main.t.current_iter = main.at_call.current_iter
    /\ main.ret = "Some" =>
           /\ main.at_call.current_iter < main.at_call.max_iter
           /\ main.t.current_iter = main.at_call.current_iter + 1
    /\ main.ret = "None" =>
           /\ main.at_call.current_iter = main.at_call.max_iter
           /\ main.t = main.at_call
    /\ (main.pc = "idle" /\ main.ret = "") => main.t.current_iter = 0

\* iterate_round has returned None after iterations were played
C16_Witness ==
    /\ main.ret = "None"
    /\ main.t.max_iter > 0
    /\ main.t.current_iter = main.t.max_iter

\* C17: both sides of a pair remember their previous match: for a pair (i, j) with
\* i < j, in every iteration after the first, the strategy of player i receives
\* (the decision of i, the decision of j) of the previous iteration and the
\* strategy of opponent j receives (the decision of j, the decision of i) of it.
C17_BothSidesRemember ==
    (main.last.called /\ main.last.i < main.last.j /\ main.last.iter > 0) =>
        /\ main.last.player_history =
               <<main.last.pair_prev[1], main.last.pair_prev[2]>>
        /\ main.last.opponent_history =
               <<main.last.pair_prev[2], main.last.pair_prev[1]>>

====
